---------------------------- MODULE Spec2Model ----------------------------
(***************************************************************************)
(* A model of pico_sat.h, the separating-axis collision tests.             *)
(*                                                                         *)
(* Numbers.  Every pm_float the tests compute from integer coordinates and *)
(* an integer radius is of the form  a + k / sqrt(l)  with integers a, k   *)
(* and l > 0: a coordinate or a radius is a, a component of a normalised   *)
(* vector v is v.x / sqrt(len2(v)), sqrt(n) is n / sqrt(n).  A pm_float is *)
(* the record [max, a, k, l]; max marks FLT_MAX.  The arithmetic below is  *)
(* exact on that form, so a comparison in the model is the comparison the  *)
(* code makes on the real numbers its floats stand for.                    *)
(*                                                                         *)
(* Coordinates are in half units: the unit square (0,0)-(1,1) of the       *)
(* specification is the square (0,0)-(2,2) here, an overlap of 0.5 is 1.   *)
(***************************************************************************)
EXTENDS Integers, Sequences, FiniteSets

VARIABLES
    fn,        \* the function called last: "none", "poly_poly", "poly_circle", "update"
    pc,        \* "idle" before any call, "loop" inside sat_test_poly_circle, "done"
    p1,        \* first polygon argument (p of sat_test_poly_circle)
    p2,        \* second polygon argument of sat_test_poly_poly
    c,         \* circle argument of sat_test_poly_circle
    manifold,  \* the manifold argument; present = FALSE is the NULL pointer
    i,         \* loop index of sat_test_poly_circle (the edge of an early exit)
    next,      \* local 'next' of the last loop iteration
    prev,      \* local 'prev' of the last loop iteration
    branch,    \* the branch the last iteration took
    diff2,     \* local 'diff2' of the last iteration (vertex branches)
    cands,     \* the sat_update_manifold calls made on manifold since its reset
    result     \* the returned boolean: "none" while running, "true", "false"

vars == <<fn, pc, p1, p2, c, manifold, i, next, prev, branch, diff2, cands, result>>

---------------------------------------------------------------------------
(* Bounds of the model. *)

\* circle centres range over (-1 .. MaxCoord) x (-1 .. MaxCoord)
MaxCoord == 3
\* circle radii range over 0 .. MaxRadius
MaxRadius == 2
\* direct sat_update_manifold calls after one reset
MaxCands == 3
\* overlaps of direct sat_update_manifold calls range over -MaxOverlap .. MaxOverlap
MaxOverlap == 2

PICO_SAT_MAX_POLY_VERTS == 8

---------------------------------------------------------------------------
(* pm_float: exact arithmetic on a + k / sqrt(l). *)

F(n) == [max |-> FALSE, a |-> n, k |-> 0, l |-> 1]

FLT_MAX == [max |-> TRUE, a |-> 0, k |-> 0, l |-> 1]

Sgn(n) == IF n > 0 THEN 1 ELSE IF n < 0 THEN -1 ELSE 0

\* sign of u + v * sqrt(w), w > 0
SignRoot(u, v, w) ==
    IF v = 0 THEN Sgn(u)
    ELSE IF u = 0 \/ Sgn(u) = Sgn(v) THEN Sgn(v)
    ELSE IF u * u > v * v * w THEN Sgn(u)
    ELSE IF u * u = v * v * w THEN 0
    ELSE Sgn(v)

\* sign of k1 / sqrt(l1) + k2 / sqrt(l2)
SignTwo(k1, l1, k2, l2) ==
    IF k1 = 0 THEN Sgn(k2)
    ELSE IF k2 = 0 \/ Sgn(k1) = Sgn(k2) THEN Sgn(k1)
    ELSE IF k1 * k1 * l2 > k2 * k2 * l1 THEN Sgn(k1)
    ELSE IF k1 * k1 * l2 = k2 * k2 * l1 THEN 0
    ELSE Sgn(k2)

\* sign of a + k1 / sqrt(l1) + k2 / sqrt(l2)
SignSum(a, k1, l1, k2, l2) ==
    LET t == SignTwo(k1, l1, k2, l2)
    IN  IF a = 0 THEN t
        ELSE IF t = 0 \/ t = Sgn(a) THEN Sgn(a)
        ELSE \* opposite signs: compare t^2 with a^2, scaled by l1 * l2
             LET s == SignRoot(k1 * k1 * l2 + k2 * k2 * l1 - a * a * l1 * l2,
                               2 * k1 * k2, l1 * l2)
             IN  IF s > 0 THEN t ELSE IF s = 0 THEN 0 ELSE Sgn(a)

pm_sign(x) == SignSum(x.a, x.k, x.l, 0, 1)

\* x < y
pm_lt(x, y) ==
    IF x.max THEN FALSE
    ELSE IF y.max THEN TRUE
    ELSE SignSum(x.a - y.a, x.k, x.l, 0 - y.k, y.l) < 0

pm_gt(x, y) == pm_lt(y, x)

pm_ge(x, y) == ~pm_lt(x, y)

pm_eq(x, y) == ~pm_lt(x, y) /\ ~pm_lt(y, x)

pm_neg(x) == [max |-> x.max, a |-> 0 - x.a, k |-> 0 - x.k, l |-> x.l]

pm_abs(x) == IF x.max THEN x ELSE IF pm_sign(x) < 0 THEN pm_neg(x) ELSE x

\* x + y, where one of the two is an integer or both have the same root
pm_add(x, y) ==
    IF x.k = 0 THEN [max |-> FALSE, a |-> x.a + y.a, k |-> y.k, l |-> y.l]
    ELSE IF y.k = 0 THEN [max |-> FALSE, a |-> x.a + y.a, k |-> x.k, l |-> x.l]
    ELSE [max |-> FALSE, a |-> x.a + y.a, k |-> x.k + y.k, l |-> x.l]

pm_sub(x, y) == pm_add(x, pm_neg(y))

\* x * y, where one of the two is an integer
pm_mul(x, y) ==
    IF x.k = 0 THEN [max |-> FALSE, a |-> x.a * y.a, k |-> x.a * y.k, l |-> y.l]
    ELSE [max |-> FALSE, a |-> x.a * y.a, k |-> y.a * x.k, l |-> x.l]

\* sqrt of a non-negative integer n: n / sqrt(n)
pm_sqrt(x) == IF x.a = 0 THEN F(0) ELSE [max |-> FALSE, a |-> 0, k |-> x.a, l |-> x.a]

---------------------------------------------------------------------------
(* pm_v2: a pair of pm_floats. *)

V(x, y) == <<F(x), F(y)>>

pm_v2_zero == V(0, 0)

pm_v2_sub(u, v) == <<pm_sub(u[1], v[1]), pm_sub(u[2], v[2])>>

pm_v2_neg(v) == <<pm_neg(v[1]), pm_neg(v[2])>>

pm_v2_dot(u, v) == pm_add(pm_mul(u[1], v[1]), pm_mul(u[2], v[2]))

pm_v2_len2(v) == pm_v2_dot(v, v)

pm_v2_perp(v) == <<pm_neg(v[2]), v[1]>>

\* v / |v| for an integer vector v; the zero vector stays zero
pm_v2_normalize(v) ==
    LET n == pm_v2_len2(v).a
    IN  IF n = 0 THEN pm_v2_zero
        ELSE <<[max |-> FALSE, a |-> 0, k |-> v[1].a, l |-> n],
               [max |-> FALSE, a |-> 0, k |-> v[2].a, l |-> n]>>

pm_v2_equal(u, v) == pm_eq(u[1], v[1]) /\ pm_eq(u[2], v[2])

---------------------------------------------------------------------------
(* Shapes. *)

sat_make_circle(pos, radius) == [pos |-> pos, radius |-> radius]

\* vertices: the caller's array, as a sequence (C index j is element j + 1)
sat_make_poly(vertex_count, vertices) ==
    LET vs == [j \in 0 .. vertex_count - 1 |-> vertices[j + 1]]
        nx(j) == IF j + 1 = vertex_count THEN 0 ELSE j + 1
        es == [j \in 0 .. vertex_count - 1 |-> pm_v2_sub(vs[nx(j)], vs[j])]
    IN  [vertex_count |-> vertex_count,
         vertices |-> vs,
         normals |-> [j \in 0 .. vertex_count - 1 |-> pm_v2_normalize(pm_v2_perp(es[j]))],
         edges |-> es]

\* box: [pos, size], the two accessors of pm_b2
sat_aabb_to_poly(box) ==
    LET x == box.pos[1].a
        y == box.pos[2].a
        w == box.size[1].a
        h == box.size[2].a
    IN  sat_make_poly(4, <<V(x, y), V(x, y + h), V(x + w, y + h), V(x + w, y)>>)

NULL == [present |-> FALSE, normal |-> pm_v2_zero, overlap |-> F(0)]

---------------------------------------------------------------------------
(* sat_update_manifold *)

\* mutant: a tie replaces the candidate held
sat_update_manifold_le(man, normal, overlap) ==
    LET abs_overlap == pm_abs(overlap)
    IN  IF ~pm_gt(abs_overlap, man.overlap)
        THEN [present |-> man.present,
              overlap |-> abs_overlap,
              normal  |-> IF pm_lt(overlap, F(0)) THEN pm_v2_neg(normal)
                          ELSE IF pm_gt(overlap, F(0)) THEN normal
                          ELSE man.normal]
        ELSE man

\* mutant: the sign test of the normal the wrong way round
sat_update_manifold_flipped(man, normal, overlap) ==
    LET abs_overlap == pm_abs(overlap)
    IN  IF pm_lt(abs_overlap, man.overlap)
        THEN [present |-> man.present,
              overlap |-> abs_overlap,
              normal  |-> IF pm_gt(overlap, F(0)) THEN pm_v2_neg(normal)
                          ELSE IF pm_lt(overlap, F(0)) THEN normal
                          ELSE man.normal]
        ELSE man

sat_update_manifold(man, normal, overlap) ==
    LET abs_overlap == pm_abs(overlap)
    IN  IF pm_lt(abs_overlap, man.overlap)
        THEN [present |-> man.present,
              overlap |-> abs_overlap,
              normal  |-> IF pm_lt(overlap, F(0)) THEN pm_v2_neg(normal)
                          ELSE IF pm_gt(overlap, F(0)) THEN normal
                          ELSE man.normal]
        ELSE man

\* the reset both test functions open with: if (manifold) { ... }
sat_reset_manifold(man) ==
    IF man.present
    THEN [present |-> TRUE, overlap |-> FLT_MAX, normal |-> pm_v2_zero]
    ELSE man

---------------------------------------------------------------------------
(* Polygon against polygon. *)

RECURSIVE sat_support_loop(_, _, _, _, _)
sat_support_loop(p, n, j, max_index, max_dot) ==
    IF j >= p.vertex_count THEN max_index
    ELSE LET dot == pm_v2_dot(p.vertices[j], n)
         IN  IF pm_gt(dot, max_dot)
             THEN sat_support_loop(p, n, j + 1, j, dot)
             ELSE sat_support_loop(p, n, j + 1, max_index, max_dot)

sat_support(p, n) == sat_support_loop(p, n, 1, 0, pm_v2_dot(p.vertices[0], n))

\* the d of edge j of q1 against q2
sat_axis_gap(q1, q2, j) ==
    LET n == q1.normals[j]
        cc == pm_v2_dot(q1.vertices[j], n)
        index == sat_support(q2, pm_v2_neg(n))
    IN  pm_sub(pm_v2_dot(q2.vertices[index], n), cc)

\* mutant: a gap of zero (touching) not taken as separating
sat_is_axis_separating_strict(q1, q2) ==
    \E j \in 0 .. q1.vertex_count - 1 : pm_gt(sat_axis_gap(q1, q2, j), F(0))

sat_is_axis_separating(q1, q2) ==
    \E j \in 0 .. q1.vertex_count - 1 : pm_ge(sat_axis_gap(q1, q2, j), F(0))

\* mutant: the second pass, with the roles swapped, left out
sat_test_poly_poly_one_pass(q1, q2, man) ==
    [manifold |-> sat_reset_manifold(man),
     result |-> IF sat_is_axis_separating(q1, q2) THEN FALSE ELSE TRUE]

sat_test_poly_poly(q1, q2, man) ==
    [manifold |-> sat_reset_manifold(man),
     result |-> IF sat_is_axis_separating(q1, q2) THEN FALSE
                ELSE IF sat_is_axis_separating(q2, q1) THEN FALSE
                ELSE TRUE]

---------------------------------------------------------------------------
(* Polygon against circle. *)

sat_voronoi_region(point, line) ==
    LET len2 == pm_v2_len2(line)
        dot == pm_v2_dot(point, line)
    IN  IF pm_lt(dot, F(0)) THEN "VORONOI_LEFT"
        ELSE IF pm_gt(dot, len2) THEN "VORONOI_RIGHT"
        ELSE "VORONOI_MIDDLE"

sat_next(j, count) == IF j + 1 = count THEN 0 ELSE j + 1

sat_prev(j, count) == IF j - 1 <= 0 THEN count - 1 ELSE j - 1

\* mutant: the distance test moved inside if (manifold)
sat_vertex_case_guarded(point, circle, man) ==
    LET d2 == pm_v2_len2(point)
        radius2 == pm_mul(circle.radius, circle.radius)
    IN  [returned |-> man.present /\ pm_gt(d2, radius2),
         diff2 |-> d2,
         overlap |-> IF man.present THEN pm_sub(circle.radius, pm_sqrt(d2)) ELSE FLT_MAX,
         normal |-> IF man.present THEN pm_v2_normalize(point) ELSE pm_v2_zero]

\* the body of a vertex branch, on the local 'point' it reads
sat_vertex_case(point, circle, man) ==
    LET d2 == pm_v2_len2(point)
        radius2 == pm_mul(circle.radius, circle.radius)
    IN  [returned |-> pm_gt(d2, radius2),
         diff2 |-> d2,
         overlap |-> IF man.present THEN pm_sub(circle.radius, pm_sqrt(d2)) ELSE FLT_MAX,
         normal |-> IF man.present THEN pm_v2_normalize(point) ELSE pm_v2_zero]

\* the VORONOI_MIDDLE branch
sat_face_case(p, circle, j, point) ==
    LET normal == p.normals[j]
        diff == pm_v2_dot(normal, point)
        abs_diff == pm_abs(diff)
    IN  [returned |-> pm_gt(diff, F(0)) /\ pm_gt(abs_diff, circle.radius),
         diff2 |-> F(0),
         overlap |-> pm_sub(circle.radius, diff),
         normal |-> normal]

NoCandidate == [returned |-> FALSE, diff2 |-> F(0), overlap |-> FLT_MAX, normal |-> pm_v2_zero]

\* one iteration of the loop over the edges, for edge j
sat_edge_iteration(p, circle, man, j) ==
    LET count == p.vertex_count
        nxt == sat_next(j, count)
        prv == sat_prev(j, count)
        point == pm_v2_sub(circle.pos, p.vertices[j])
        region == sat_voronoi_region(point, p.edges[j])
        br == IF region = "VORONOI_LEFT"
              THEN IF sat_voronoi_region(pm_v2_sub(circle.pos, p.vertices[prv]),
                                         p.edges[prv]) = "VORONOI_RIGHT"
                   THEN "left_vertex" ELSE "left_none"
              ELSE IF region = "VORONOI_RIGHT"
              THEN IF sat_voronoi_region(pm_v2_sub(circle.pos, p.vertices[nxt]),
                                         p.edges[nxt]) = "VORONOI_LEFT"
                   THEN "right_vertex" ELSE "right_none"
              ELSE "middle"
        cand == IF br = "left_vertex" THEN sat_vertex_case(point, circle, man)
                ELSE IF br = "right_vertex" THEN sat_vertex_case(point, circle, man)
                ELSE IF br = "middle" THEN sat_face_case(p, circle, j, point)
                ELSE NoCandidate
    IN  [returned |-> cand.returned,
         next |-> nxt,
         prev |-> prv,
         branch |-> br,
         diff2 |-> cand.diff2,
         normal |-> cand.normal,
         overlap |-> cand.overlap,
         manifold |-> IF man.present /\ ~cand.returned
                      THEN sat_update_manifold(man, cand.normal, cand.overlap)
                      ELSE man]

RECURSIVE sat_poly_circle_loop(_, _, _, _)
sat_poly_circle_loop(p, circle, man, j) ==
    IF j >= p.vertex_count THEN [result |-> TRUE, exit |-> j, manifold |-> man]
    ELSE LET b == sat_edge_iteration(p, circle, man, j)
         IN  IF b.returned THEN [result |-> FALSE, exit |-> j, manifold |-> man]
             ELSE sat_poly_circle_loop(p, circle, b.manifold, j + 1)

sat_test_poly_circle(p, circle, man) ==
    sat_poly_circle_loop(p, circle, sat_reset_manifold(man), 0)

---------------------------------------------------------------------------
(* The inputs: convex polygons wound so that pm_v2_perp of an edge points  *)
(* outward (the winding of sat_aabb_to_poly), and circles on a grid.       *)

Box(x, y, w, h) == [pos |-> V(x, y), size |-> V(w, h)]

Boxes == {Box(0, 0, 2, 2), Box(1, 0, 2, 2), Box(2, 0, 2, 2), Box(4, 0, 2, 2),
          Box(3, 2, 2, 2)}

VertexLists == {<<V(0, 0), V(0, 3), V(4, 0)>>,
                <<V(0, 0), V(0, 2), V(2, 0)>>,
                <<V(0, 2), V(2, 0), V(0, 0)>>,
                <<V(0, 0), V(1, 2), V(3, 2), V(2, 0)>>}

Polys == {sat_aabb_to_poly(b) : b \in Boxes}
             \cup {sat_make_poly(Len(vs), vs) :
                       vs \in {l \in VertexLists : Len(l) <= PICO_SAT_MAX_POLY_VERTS}}

Circles == {sat_make_circle(V(x, y), F(r)) :
                x \in -1 .. MaxCoord, y \in -1 .. MaxCoord, r \in 0 .. MaxRadius}

\* the normals and overlaps a caller hands to sat_update_manifold directly
CallerNormals == {V(1, 0), V(0, 1)}

CallerOverlaps == {F(r) : r \in (0 - MaxOverlap) .. MaxOverlap}

NoPoly == sat_make_poly(0, <<>>)

NoCircle == sat_make_circle(pm_v2_zero, F(0))

\* what a caller's manifold may hold before it is handed to a test: it is not
\* initialised by the caller, so anything, a former result included
PriorManifolds == {[present |-> TRUE, normal |-> V(0, 1), overlap |-> F(1)],
                   [present |-> TRUE, normal |-> V(-1, 0), overlap |-> F(0)],
                   [present |-> TRUE, normal |-> pm_v2_zero, overlap |-> FLT_MAX]}

---------------------------------------------------------------------------
(* The state machine: calls of the public functions. *)

Init ==
    /\ fn = "none"
    /\ pc = "idle"
    /\ p1 = NoPoly
    /\ p2 = NoPoly
    /\ c = NoCircle
    /\ manifold \in PriorManifolds
    /\ i = 0
    /\ next = 0
    /\ prev = 0
    /\ branch = "none"
    /\ diff2 = F(0)
    /\ cands = <<>>
    /\ result = "none"

\* the manifold argument of a call: NULL, or the caller's manifold as it is
ManifoldArgs == {NULL, manifold}

\* sat_test_poly_poly(q1, q2, man), the whole call
CallPolyPoly ==
    /\ pc = "idle"
    /\ \E q1 \in Polys, q2 \in Polys, man \in ManifoldArgs :
          LET r == sat_test_poly_poly(q1, q2, man)
          IN  /\ p1' = q1
              /\ p2' = q2
              /\ manifold' = r.manifold
              /\ result' = IF r.result THEN "true" ELSE "false"
    /\ fn' = "poly_poly"
    /\ pc' = "done"
    /\ c' = NoCircle
    /\ i' = 0
    /\ next' = 0
    /\ prev' = 0
    /\ branch' = "none"
    /\ diff2' = F(0)
    /\ cands' = <<>>

\* sat_test_poly_circle(p, circle, man): entry, up to the loop
CallPolyCircle ==
    /\ pc = "idle"
    /\ \E p \in Polys, circle \in Circles, man \in ManifoldArgs :
          /\ p1' = p
          /\ c' = circle
          /\ manifold' = sat_reset_manifold(man)
    /\ fn' = "poly_circle"
    /\ pc' = "loop"
    /\ p2' = NoPoly
    /\ i' = 0
    /\ next' = 0
    /\ prev' = 0
    /\ branch' = "none"
    /\ diff2' = F(0)
    /\ cands' = <<>>
    /\ result' = "none"

\* one iteration of the loop of sat_test_poly_circle, for edge i
EdgeIteration ==
    /\ pc = "loop"
    /\ i < p1.vertex_count
    /\ LET b == sat_edge_iteration(p1, c, manifold, i)
       IN  /\ next' = b.next
           /\ prev' = b.prev
           /\ branch' = b.branch
           /\ diff2' = b.diff2
           /\ manifold' = b.manifold
           /\ IF b.returned
              THEN /\ pc' = "done"
                   /\ result' = "false"
                   /\ i' = i
                   /\ cands' = cands
              ELSE /\ pc' = "loop"
                   /\ result' = "none"
                   /\ i' = i + 1
                   /\ cands' = IF manifold.present
                               THEN Append(cands, [normal |-> b.normal,
                                                   overlap |-> b.overlap,
                                                   edge |-> i,
                                                   branch |-> b.branch])
                               ELSE cands
    /\ UNCHANGED <<fn, p1, p2, c>>

\* the loop of sat_test_poly_circle ends: return true
ReturnTrue ==
    /\ pc = "loop"
    /\ i >= p1.vertex_count
    /\ pc' = "done"
    /\ result' = "true"
    /\ UNCHANGED <<fn, p1, p2, c, manifold, i, next, prev, branch, diff2, cands>>

\* a caller's own sat_update_manifold(manifold, normal, overlap) on the manifold
\* a polygon test has just reset
CallUpdateManifold ==
    /\ pc = "done"
    /\ fn \in {"poly_poly", "update"}
    /\ manifold.present
    /\ Len(cands) < MaxCands
    /\ \E normal \in CallerNormals, overlap \in CallerOverlaps :
          /\ manifold' = sat_update_manifold(manifold, normal, overlap)
          /\ cands' = Append(cands, [normal |-> normal, overlap |-> overlap,
                                     edge |-> 0, branch |-> "caller"])
    /\ fn' = "update"
    /\ p1' = NoPoly
    /\ p2' = NoPoly
    /\ result' = "none"
    /\ UNCHANGED <<pc, c, i, next, prev, branch, diff2>>

Next ==
    \/ CallPolyPoly
    \/ CallPolyCircle
    \/ EdgeIteration
    \/ ReturnTrue
    \/ CallUpdateManifold

Spec == Init /\ [][Next]_vars

---------------------------------------------------------------------------
(* Geometry the claims are measured against, in integer arithmetic on the  *)
(* coordinates: the true distance between a circle and a convex polygon.   *)

Px(circle) == circle.pos[1].a

Py(circle) == circle.pos[2].a

Vx(p, j) == p.vertices[j][1].a

Vy(p, j) == p.vertices[j][2].a

Ex(p, j) == Vx(p, (j + 1) % p.vertex_count) - Vx(p, j)

Ey(p, j) == Vy(p, (j + 1) % p.vertex_count) - Vy(p, j)

\* the squared distance from the centre to vertex j
VertexDist2(p, circle, j) ==
    (Px(circle) - Vx(p, j)) * (Px(circle) - Vx(p, j))
        + (Py(circle) - Vy(p, j)) * (Py(circle) - Vy(p, j))

\* the centre is farther than the radius from every point of the segment of edge j
FartherThanRadius(p, circle, j) ==
    LET wx == Px(circle) - Vx(p, j)
        wy == Py(circle) - Vy(p, j)
        t == wx * Ex(p, j) + wy * Ey(p, j)
        len2 == Ex(p, j) * Ex(p, j) + Ey(p, j) * Ey(p, j)
        cross == wx * Ey(p, j) - wy * Ex(p, j)
        r2 == circle.radius.a * circle.radius.a
    IN  IF t <= 0 THEN VertexDist2(p, circle, j) > r2
        ELSE IF t >= len2 THEN VertexDist2(p, circle, (j + 1) % p.vertex_count) > r2
        ELSE cross * cross > r2 * len2

\* the centre is in the closed polygon: behind every edge (the outward side of
\* edge j is the side of (-Ey, Ex))
CentreInside(p, circle) ==
    \A j \in 0 .. p.vertex_count - 1 :
        (Py(circle) - Vy(p, j)) * Ex(p, j) - (Px(circle) - Vx(p, j)) * Ey(p, j) <= 0

\* the distance from the centre to the nearest point of the polygon exceeds the radius
TrulyDisjoint(p, circle) ==
    /\ ~CentreInside(p, circle)
    /\ \A j \in 0 .. p.vertex_count - 1 : FartherThanRadius(p, circle, j)

\* a loop iteration of sat_test_poly_circle has run, and its edge
Iterated == fn = "poly_circle" /\ branch # "none"

LastEdge == IF result = "false" THEN i ELSE i - 1

PolyCircleDone == fn = "poly_circle" /\ pc = "done"

PolyPolyDone == fn = "poly_poly" /\ pc = "done"

\* the vertex shared by edge j and the edge after it, and by edge j and the one before
SharedWithNext(p, j) == p.vertices[(j + 1) % p.vertex_count]

SharedWithPrev(p, j) == p.vertices[j]

---------------------------------------------------------------------------
(* C8 *)

\* C8: in the per-edge loop of sat_test_poly_circle the neighbour indices wrap
\* modulo the vertex count: next = (i + 1) mod n and prev = (i - 1 + n) mod n.
C8_NeighboursWrap ==
    Iterated =>
        /\ next = (LastEdge + 1) % p1.vertex_count
        /\ prev = (LastEdge - 1 + p1.vertex_count) % p1.vertex_count

---------------------------------------------------------------------------
(* C9 *)

\* C9: in the vertex case of the RIGHT branch the squared distance, the overlap
\* and the normal are computed from the centre relative to the vertex shared by
\* edges i and next, as the LEFT branch computes them relative to vertices[i].
C9_VertexCaseUsesSharedVertex ==
    /\ Iterated /\ branch = "right_vertex" =>
          LET q == pm_v2_sub(c.pos, SharedWithNext(p1, LastEdge))
          IN  /\ pm_eq(diff2, pm_v2_len2(q))
              /\ manifold.present /\ result # "false" =>
                    /\ pm_eq(cands[Len(cands)].overlap,
                             pm_sub(c.radius, pm_sqrt(pm_v2_len2(q))))
                    /\ pm_v2_equal(cands[Len(cands)].normal, pm_v2_normalize(q))
    /\ Iterated /\ branch = "left_vertex" =>
          LET q == pm_v2_sub(c.pos, SharedWithPrev(p1, LastEdge))
          IN  /\ pm_eq(diff2, pm_v2_len2(q))
              /\ manifold.present /\ result # "false" =>
                    /\ pm_eq(cands[Len(cands)].overlap,
                             pm_sub(c.radius, pm_sqrt(pm_v2_len2(q))))
                    /\ pm_v2_equal(cands[Len(cands)].normal, pm_v2_normalize(q))

---------------------------------------------------------------------------
(* C1 *)

\* C1: sat_test_poly_circle returns false only when the circle and the polygon
\* are disjoint: the distance from the centre to the polygon exceeds the radius.
C1_FalseOnlyWhenDisjoint ==
    PolyCircleDone /\ result = "false" => TrulyDisjoint(p1, c)

---------------------------------------------------------------------------
(* C3, C4, C2: polygon against polygon *)

\* edge j of q1 is a separating axis by the full projection of q2: every vertex
\* of q2 projects onto the outward normal (-Ey, Ex) at or beyond vertex j of q1
FullProjectionSeparates(q1, q2, j) ==
    \A v \in 0 .. q2.vertex_count - 1 :
        (Vy(q2, v) - Vy(q1, j)) * Ex(q1, j) - (Vx(q2, v) - Vx(q1, j)) * Ey(q1, j) >= 0

SomeAxisSeparates(q1, q2) ==
    \/ \E j \in 0 .. q1.vertex_count - 1 : FullProjectionSeparates(q1, q2, j)
    \/ \E j \in 0 .. q2.vertex_count - 1 : FullProjectionSeparates(q2, q1, j)

\* C3: sat_test_poly_poly returns false if and only if some edge normal of p1 or
\* of p2 is a separating axis by the full projection of the other polygon, a gap
\* of zero (touching) counting as separated; otherwise it returns true.
C3_FalseIffSeparatingAxis ==
    PolyPolyDone => ((result = "false") <=> SomeAxisSeparates(p1, p2))

\* the squares (0,0)-(1,1) and (1,0)-(2,1) touch: a gap of exactly zero on one
\* axis, negative gaps on the others, and the result is false
C3_Witness ==
    /\ PolyPolyDone
    /\ p1 = sat_aabb_to_poly(Box(0, 0, 2, 2))
    /\ p2 = sat_aabb_to_poly(Box(2, 0, 2, 2))
    /\ \E j \in 0 .. 3 : pm_eq(sat_axis_gap(p1, p2, j), F(0))
    /\ \A j \in 0 .. 3 : ~pm_gt(sat_axis_gap(p1, p2, j), F(0))
    /\ result = "false"

\* C4: the boolean result of sat_test_poly_poly is symmetric in its operands.
C4_ResultSymmetric ==
    PolyPolyDone => ((result = "true") <=> sat_test_poly_poly(p2, p1, manifold).result)

\* only the second pass finds the separating axis, and for the swapped operands
\* only the first
C4_Witness ==
    /\ PolyPolyDone
    /\ result = "false"
    /\ ~sat_is_axis_separating(p1, p2)
    /\ sat_is_axis_separating(p2, p1)

\* the least |d| over the edge normals of both polygons
LeastGap(q1, q2, g) ==
    /\ (\/ \E j \in 0 .. q1.vertex_count - 1 : pm_eq(pm_abs(sat_axis_gap(q1, q2, j)), g)
        \/ \E j \in 0 .. q2.vertex_count - 1 : pm_eq(pm_abs(sat_axis_gap(q2, q1, j)), g))
    /\ \A j \in 0 .. q1.vertex_count - 1 : pm_ge(pm_abs(sat_axis_gap(q1, q2, j)), g)
    /\ \A j \in 0 .. q2.vertex_count - 1 : pm_ge(pm_abs(sat_axis_gap(q2, q1, j)), g)

\* C2: when sat_test_poly_poly returns true and a manifold was supplied, the
\* manifold holds the axis of least |d| over the edge normals of both passes:
\* overlap = -d, and the normal is that unit normal up to its sign, not the reset
\* values overlap = FLT_MAX, normal = zero.
C2_ManifoldHoldsLeastAxis ==
    PolyPolyDone /\ result = "true" /\ manifold.present =>
        /\ ~manifold.overlap.max
        /\ LeastGap(p1, p2, manifold.overlap)
        /\ ~pm_v2_equal(manifold.normal, pm_v2_zero)

---------------------------------------------------------------------------
(* C7 *)

\* C7: the manifold argument does not influence the answer: with NULL or with
\* a manifold of any prior contents both tests return the same boolean, and
\* sat_test_poly_circle exits at the same edge.
C7_ManifoldDoesNotInfluence ==
    /\ PolyCircleDone =>
          \A man \in PriorManifolds \cup {NULL} :
              LET r == sat_test_poly_circle(p1, c, man)
              IN  /\ r.result = (result = "true")
                  /\ r.exit = i
    /\ PolyPolyDone =>
          \A man \in PriorManifolds \cup {NULL} :
              sat_test_poly_poly(p1, p2, man).result = (result = "true")

\* a run with a manifold that exits early in a vertex branch
C7_Witness ==
    /\ PolyCircleDone
    /\ manifold.present
    /\ result = "false"
    /\ branch \in {"left_vertex", "right_vertex"}
    /\ i > 0

---------------------------------------------------------------------------
(* C10: the manifold as an accumulator *)

\* the least |overlap| of a sequence of candidates, FLT_MAX for none
RECURSIVE LeastAbsOverlap(_)
LeastAbsOverlap(cs) ==
    IF cs = <<>> THEN FLT_MAX
    ELSE LET rest == LeastAbsOverlap(SubSeq(cs, 1, Len(cs) - 1))
             last == pm_abs(cs[Len(cs)].overlap)
         IN  IF pm_lt(last, rest) THEN last ELSE rest

\* the earliest candidate attaining the least |overlap|; 0 when there is none
Earliest(cs) ==
    IF LeastAbsOverlap(cs).max THEN 0
    ELSE CHOOSE k \in 1 .. Len(cs) :
            /\ pm_eq(pm_abs(cs[k].overlap), LeastAbsOverlap(cs))
            /\ \A j \in 1 .. k - 1 : ~pm_eq(pm_abs(cs[j].overlap), LeastAbsOverlap(cs))

\* the normal the claim gives the manifold after the candidates cs
RECURSIVE AccumulatedNormal(_)
AccumulatedNormal(cs) ==
    LET k == Earliest(cs)
    IN  IF k = 0 THEN pm_v2_zero
        ELSE IF pm_lt(cs[k].overlap, F(0)) THEN pm_v2_neg(cs[k].normal)
        ELSE IF pm_gt(cs[k].overlap, F(0)) THEN cs[k].normal
        ELSE AccumulatedNormal(SubSeq(cs, 1, k - 1))

C10_Accumulated ==
    manifold.present /\ fn # "none" =>
        /\ pm_eq(manifold.overlap, LeastAbsOverlap(cands))
        /\ pm_v2_equal(manifold.normal, AccumulatedNormal(cands))

C10_NeverIncreases ==
    Len(cands') = Len(cands) + 1 => ~pm_gt(manifold'.overlap, manifold.overlap)

\* C10: a test function resets the manifold to overlap = FLT_MAX, normal = zero
\* whatever it held; after any sequence of sat_update_manifold calls the overlap
\* has never increased and is the least |overlap_k| (FLT_MAX for none), and the
\* normal is that of the earliest candidate attaining it, negated if its overlap
\* is negative, kept if positive; a zero overlap leaves the normal as it was.
C10_WriteAccumulator == [](C10_Accumulated) /\ [][C10_NeverIncreases]_vars

\* a negative candidate set the normal negated, a later zero candidate set the
\* overlap to 0 and left that normal, and a last candidate changed nothing
C10_Witness ==
    /\ fn = "update"
    /\ Len(cands) = 3
    /\ cands[1].overlap = F(-2)
    /\ cands[2].overlap = F(0)
    /\ cands[2].normal # cands[1].normal
    /\ manifold.overlap = F(0)
    /\ manifold.normal = pm_v2_neg(cands[1].normal)

---------------------------------------------------------------------------
(* C5, C6: the manifold of sat_test_poly_circle *)

\* the candidate of edge j as C8 and C9 state it: neighbours modulo the vertex
\* count, a vertex case measured from the shared vertex
EdgeCandidate(p, circle, j) ==
    LET n == p.vertex_count
        nxt == (j + 1) % n
        prv == (j - 1 + n) % n
        point == pm_v2_sub(circle.pos, p.vertices[j])
        pointn == pm_v2_sub(circle.pos, p.vertices[nxt])
        region == sat_voronoi_region(point, p.edges[j])
    IN  IF region = "VORONOI_LEFT"
        THEN IF sat_voronoi_region(pm_v2_sub(circle.pos, p.vertices[prv]), p.edges[prv])
                    = "VORONOI_RIGHT"
             THEN [overlap |-> pm_sub(circle.radius, pm_sqrt(pm_v2_len2(point))),
                   normal |-> pm_v2_normalize(point)]
             ELSE [overlap |-> FLT_MAX, normal |-> pm_v2_zero]
        ELSE IF region = "VORONOI_RIGHT"
        THEN IF sat_voronoi_region(pointn, p.edges[nxt]) = "VORONOI_LEFT"
             THEN [overlap |-> pm_sub(circle.radius, pm_sqrt(pm_v2_len2(pointn))),
                   normal |-> pm_v2_normalize(pointn)]
             ELSE [overlap |-> FLT_MAX, normal |-> pm_v2_zero]
        ELSE [overlap |-> pm_sub(circle.radius, pm_v2_dot(p.normals[j], point)),
              normal |-> p.normals[j]]

EdgeCandidates(p, circle) == [j \in 1 .. p.vertex_count |-> EdgeCandidate(p, circle, j - 1)]

\* C5: when sat_test_poly_circle scans all edges and returns true, the circle
\* and the polygon overlap, and a supplied manifold has a finite overlap and a
\* non-zero normal, those of the least |overlap| candidate over all edges.
C5_TrueMeansOverlapWithManifold ==
    PolyCircleDone /\ result = "true" =>
        /\ ~TrulyDisjoint(p1, c)
        /\ manifold.present =>
              /\ ~manifold.overlap.max
              /\ ~pm_v2_equal(manifold.normal, pm_v2_zero)
              /\ pm_eq(manifold.overlap, LeastAbsOverlap(EdgeCandidates(p1, c)))
              /\ pm_v2_equal(manifold.normal,
                             EdgeCandidates(p1, c)[Earliest(EdgeCandidates(p1, c))].normal)

\* the call returned true with a manifold and a non-zero least overlap
ManifoldProduced ==
    /\ PolyCircleDone
    /\ result = "true"
    /\ manifold.present
    /\ pm_gt(manifold.overlap, F(0))

Winner == cands[Earliest(cands)]

=============================================================================
